---- MODULE Spec2Model ----
(***************************************************************************)
(* Model of the fallback LSB codec of image_steganography/core.py and of   *)
(* the two public operations built on it, encode_message_to_image and      *)
(* decode_message_from_image, over a small file system of image files.     *)
(*                                                                         *)
(* An image file is a record [mode, width, height, px] where px maps the   *)
(* coordinate <<x, y>> to the tuple of channel values of that pixel, as    *)
(* PIL's pixel access object does.  A text is a sequence of Unicode code   *)
(* points, a byte string a sequence of values 0..255.                      *)
(***************************************************************************)
EXTENDS Integers, Sequences, FiniteSets, TLC

VARIABLES
    fs,      \* path -> image file (NoFile when the path does not exist)
    op,      \* the last call: [kind, src, dst, msg]
    res,     \* its outcome: [err, text, path]
    pre,     \* fs as it was when the last call started
    img,     \* the in-memory image of the last call when it returned or raised
    log      \* the embeds that succeeded, in order: [src, dst, msg]

vars == <<fs, op, res, pre, img, log>>

\* ------------------------------------------------------------ bounds

\* successful embeds per run, over all covers and messages
MaxSaves == 1

\* successful embeds per run, over the covers and messages of SpecChain
MaxChain == 3

\* ------------------------------------------------------------ bit helpers

\* (v & ~1) | bit, core.py 130-132
SetLsb(v, bit) == (v - (v % 2)) + bit

\* v & 1, core.py 151
Lsb(v) == v % 2

\* core.py 94
_HEADER == <<73, 77, 83, 71, 0>>

\* the 8 bits of one byte, most significant first: (byte >> (7 - i)) & 1
ByteBits(byte) == [i \in 1..8 |-> (byte \div (2 ^ (8 - i))) % 2]

RECURSIVE _to_bits(_)
_to_bits(data) ==
    IF data = <<>> THEN <<>>
    ELSE ByteBits(Head(data)) \o _to_bits(Tail(data))

\* The accumulator b of _from_bits after i bits of the group of 8 that starts
\* after `base` bits: b = (b << 1) | bit, from b = 0 at the start of a group
RECURSIVE Accumulate(_, _, _)
Accumulate(bits, base, i) ==
    IF i = 0 THEN 0
    ELSE (Accumulate(bits, base, i - 1) * 2) + bits[base + i]

\* _from_bits: a byte is appended after every 8th bit; a trailing group of
\* fewer than 8 bits stays in the accumulator and is dropped
_from_bits(bits) ==
    [j \in 1..(Len(bits) \div 8) |-> Accumulate(bits, 8 * (j - 1), 8)]

\* Python's slice s[lo:hi] for 0 <= lo <= hi: clipped to the sequence
Slice(s, lo, hi) ==
    LET h == IF hi < Len(s) THEN hi ELSE Len(s)
    IN  IF lo >= h THEN <<>> ELSE SubSeq(s, lo + 1, h)

\* n.to_bytes(4, "big"), for 0 <= n < 2^32
ToBytes4(n) ==
    << (n \div 16777216) % 256, (n \div 65536) % 256, (n \div 256) % 256, n % 256 >>

\* int.from_bytes(bs, "big"), of any length (0 for the empty byte string)
RECURSIVE FromBytesBig(_)
FromBytesBig(bs) ==
    IF bs = <<>> THEN 0
    ELSE (FromBytesBig(SubSeq(bs, 1, Len(bs) - 1)) * 256) + bs[Len(bs)]

\* bytes.startswith
StartsWith(bs, prefix) ==
    /\ Len(bs) >= Len(prefix)
    /\ SubSeq(bs, 1, Len(prefix)) = prefix

\* ------------------------------------------------------------ UTF-8

IsSurrogate(cp) == cp >= 55296 /\ cp <= 57343

\* str.encode("utf-8") of one code point
Utf8EncodeCp(cp) ==
    IF cp < 128 THEN << cp >>
    ELSE IF cp < 2048 THEN << 192 + (cp \div 64), 128 + (cp % 64) >>
    ELSE IF cp < 65536
         THEN << 224 + (cp \div 4096), 128 + ((cp \div 64) % 64), 128 + (cp % 64) >>
    ELSE << 240 + (cp \div 262144), 128 + ((cp \div 4096) % 64),
            128 + ((cp \div 64) % 64), 128 + (cp % 64) >>

\* str.encode("utf-8"): a lone surrogate raises UnicodeEncodeError
CanEncode(text) == \A i \in 1..Len(text) : ~IsSurrogate(text[i])

RECURSIVE Utf8Encode(_)
Utf8Encode(text) ==
    IF text = <<>> THEN <<>>
    ELSE Utf8EncodeCp(Head(text)) \o Utf8Encode(Tail(text))

IsCont(b) == b >= 128 /\ b <= 191

\* bytes.decode("utf-8"), strict: the decoder reads a lead byte, then the
\* continuation bytes its range demands; anything else is a
\* UnicodeDecodeError.  Returns [ok, text].
RECURSIVE Utf8DecodeFrom(_, _, _)
Utf8DecodeFrom(bs, i, acc) ==
    LET n  == Len(bs)
        b0 == bs[i]
        fail == [ok |-> FALSE, text |-> <<>>]
        c(k) == bs[i + k] - 128
    IN
    IF i > n THEN [ok |-> TRUE, text |-> acc]
    ELSE IF b0 < 128 THEN Utf8DecodeFrom(bs, i + 1, Append(acc, b0))
    ELSE IF b0 >= 194 /\ b0 <= 223 THEN
        IF i + 1 <= n /\ IsCont(bs[i + 1])
        THEN Utf8DecodeFrom(bs, i + 2, Append(acc, ((b0 - 192) * 64) + c(1)))
        ELSE fail
    ELSE IF b0 >= 224 /\ b0 <= 239 THEN
        IF /\ i + 2 <= n
           /\ IsCont(bs[i + 1]) /\ IsCont(bs[i + 2])
           /\ (b0 = 224 => bs[i + 1] >= 160)
           /\ (b0 = 237 => bs[i + 1] <= 159)
        THEN Utf8DecodeFrom(bs, i + 3,
                 Append(acc, ((b0 - 224) * 4096) + (c(1) * 64) + c(2)))
        ELSE fail
    ELSE IF b0 >= 240 /\ b0 <= 244 THEN
        IF /\ i + 3 <= n
           /\ IsCont(bs[i + 1]) /\ IsCont(bs[i + 2]) /\ IsCont(bs[i + 3])
           /\ (b0 = 240 => bs[i + 1] >= 144)
           /\ (b0 = 244 => bs[i + 1] <= 143)
        THEN Utf8DecodeFrom(bs, i + 4,
                 Append(acc, ((b0 - 240) * 262144) + (c(1) * 4096) + (c(2) * 64) + c(3)))
        ELSE fail
    ELSE fail

Utf8Decode(bs) == Utf8DecodeFrom(bs, 1, <<>>)

\* ------------------------------------------------------------ images

NoFile == [mode |-> "none", width |-> 0, height |-> 0, px |-> <<>>]

Coords(w, h) == (0..(w - 1)) \X (0..(h - 1))

\* Image.convert("RGBA"): an RGB pixel gets alpha 255, an RGBA image is kept
ConvertRGBA(file) ==
    IF file.mode = "RGB"
    THEN [file EXCEPT !.mode = "RGBA",
                      !.px = [xy \in DOMAIN file.px |-> Append(file.px[xy], 255)]]
    ELSE file

\* ------------------------------------------------------------ error kinds

\* core.py 54 and 79: the path does not exist
CoverNotFound == "Cover image not found"
ImageNotFound == "Image not found"
\* core.py 56
InvalidInput == "Message must not be empty"
\* core.py 123
CapacityExceeded == "Message is too large for this image in fallback mode."
\* core.py 86
NoMessageFound == "No hidden message found or unable to decode."
\* message.encode("utf-8") of a lone surrogate; not a SteganographyError
EncodeFailed == "UnicodeEncodeError"

\* ------------------------------------------------------------ paths

Path(stem, suffix) == [stem |-> stem, suffix |-> suffix]

\* str.lower on the suffixes in use
Lower(suffix) ==
    CASE suffix = ".PNG" -> ".png"
      [] suffix = ".JPG" -> ".jpg"
      [] OTHER -> suffix

\* utils.ensure_png
ensure_png(p) ==
    IF Lower(p.suffix) # ".png" THEN [p EXCEPT !.suffix = ".png"] ELSE p

\* ------------------------------------------------------------ the codec

\* EmbedPixel as it would be if the channels left over at the end of the
\* stream were cleared instead of skipped
EmbedPixelPadded(p, bits, pos) ==
    LET n == Len(bits)
        r == IF pos < n THEN SetLsb(p[1], bits[pos + 1]) ELSE SetLsb(p[1], 0)
        g == IF pos + 1 < n THEN SetLsb(p[2], bits[pos + 2]) ELSE SetLsb(p[2], 0)
        b == IF pos + 2 < n THEN SetLsb(p[3], bits[pos + 3]) ELSE SetLsb(p[3], 0)
    IN  [pixel |-> << r, g, b, p[4] >>,
         pos   |-> IF pos + 3 < n THEN pos + 3 ELSE n,
         stop  |-> pos + 3 > n]

\* The body of the pixel loop of _fallback_encode for one pixel: the three
\* assignments take the next stream bit each; the first next(it) that finds
\* the iterator exhausted raises StopIteration and leaves that channel and the
\* following ones as they were.  pos is the number of bits consumed so far.
EmbedPixel(p, bits, pos) ==
    LET n == Len(bits)
        r == IF pos < n THEN SetLsb(p[1], bits[pos + 1]) ELSE p[1]
        g == IF pos + 1 < n THEN SetLsb(p[2], bits[pos + 2]) ELSE p[2]
        b == IF pos + 2 < n THEN SetLsb(p[3], bits[pos + 3]) ELSE p[3]
    IN  [pixel |-> << r, g, b, p[4] >>,
         pos   |-> IF pos + 3 < n THEN pos + 3 ELSE n,
         stop  |-> pos + 3 > n]

\* for x in range(width) on row y, from column x on: st = [im, pos, stop]
\* is the image, the bits consumed and whether StopIteration was caught
RECURSIVE WriteRow(_, _, _, _)
WriteRow(st, bits, x, y) ==
    IF x >= st.im.width \/ st.stop THEN st
    ELSE LET s == EmbedPixel(st.im.px[<< x, y >>], bits, st.pos)
         IN  WriteRow([im   |-> [st.im EXCEPT !.px[<< x, y >>] = s.pixel],
                       pos  |-> s.pos,
                       stop |-> s.stop],
                      bits, x + 1, y)

\* for y in range(height), from row y on
RECURSIVE WriteRows(_, _, _)
WriteRows(st, bits, y) ==
    IF y >= st.im.height \/ st.stop THEN st
    ELSE WriteRows(WriteRow(st, bits, 0, y), bits, y + 1)

\* the loops of _fallback_encode: the image as it is when img.save is called,
\* after StopIteration or after the loops
WriteLoop(im, bits) == WriteRows([im |-> im, pos |-> 0, stop |-> FALSE], bits, 0).im

\* Payload as it would be with len(message) for the length field
PayloadCharCount(message) ==
    _HEADER \o ToBytes4(Len(message)) \o Utf8Encode(message)

\* the frame: magic, 4-byte big-endian length of the UTF-8 body, body
Payload(message) ==
    LET body == Utf8Encode(message)
    IN  _HEADER \o ToBytes4(Len(body)) \o body

\* _fallback_encode as it would be with `len(bits) >= capacity`
_fallback_encode_strict(file, message) ==
    LET im       == ConvertRGBA(file)
        bits     == _to_bits(Payload(message))
        capacity == im.width * im.height * 3
    IN  IF ~CanEncode(message)
        THEN [err |-> EncodeFailed, img |-> im, saved |-> FALSE]
        ELSE IF Len(bits) >= capacity
        THEN [err |-> CapacityExceeded, img |-> im, saved |-> FALSE]
        ELSE [err |-> "none", img |-> WriteLoop(im, bits), saved |-> TRUE]

\* _fallback_encode as it would be with the capacity checked after the loops
\* have run and the image has been saved
_fallback_encode_late(file, message) ==
    LET im       == ConvertRGBA(file)
        bits     == _to_bits(Payload(message))
        capacity == im.width * im.height * 3
    IN  IF ~CanEncode(message)
        THEN [err |-> EncodeFailed, img |-> im, saved |-> FALSE]
        ELSE IF Len(bits) > capacity
        THEN [err |-> CapacityExceeded, img |-> WriteLoop(im, bits), saved |-> TRUE]
        ELSE [err |-> "none", img |-> WriteLoop(im, bits), saved |-> TRUE]

\* _fallback_encode: [err, img, saved], img being the in-memory image when
\* the function returns or raises and saved whether img.save(out) was called
_fallback_encode(file, message) ==
    LET im       == ConvertRGBA(file)
        bits     == _to_bits(Payload(message))
        capacity == im.width * im.height * 3
    IN  IF ~CanEncode(message)
        THEN [err |-> EncodeFailed, img |-> im, saved |-> FALSE]
        ELSE IF Len(bits) > capacity
        THEN [err |-> CapacityExceeded, img |-> im, saved |-> FALSE]
        ELSE [err |-> "none", img |-> WriteLoop(im, bits), saved |-> TRUE]

\* ReadRow as it would be reading the channels as b, g, r
RECURSIVE ReadRowBGR(_, _, _)
ReadRowBGR(im, x, y) ==
    IF x >= im.width THEN <<>>
    ELSE LET p == im.px[<< x, y >>]
         IN  << Lsb(p[3]), Lsb(p[2]), Lsb(p[1]) >> \o ReadRowBGR(im, x + 1, y)

\* for x in range(width) on row y, from column x on: r & 1, g & 1, b & 1
RECURSIVE ReadRow(_, _, _)
ReadRow(im, x, y) ==
    IF x >= im.width THEN <<>>
    ELSE LET p == im.px[<< x, y >>]
         IN  << Lsb(p[1]), Lsb(p[2]), Lsb(p[3]) >> \o ReadRow(im, x + 1, y)

\* for y in range(height), from row y on
RECURSIVE ReadRows(_, _)
ReadRows(im, y) ==
    IF y >= im.height THEN <<>>
    ELSE ReadRow(im, 0, y) \o ReadRows(im, y + 1)

\* the reading loops of _fallback_decode
ReadLoop(im) == ReadRows(im, 0)

\* DecodeBody as it would be with a byte-for-byte fallback (latin-1) on
\* UnicodeDecodeError
DecodeBodyLenient(msg_bytes) ==
    LET d == Utf8Decode(msg_bytes)
    IN  IF d.ok THEN d.text ELSE msg_bytes

\* msg_bytes.decode("utf-8"), "" on UnicodeDecodeError
DecodeBody(msg_bytes) ==
    LET d == Utf8Decode(msg_bytes)
    IN  IF d.ok THEN d.text ELSE <<>>

\* ParseBits as it would be comparing only the four letters of the magic
ParseBitsShortMagic(bits) ==
    LET header_len_bits == (Len(_HEADER) + 4) * 8
        header_bytes    == _from_bits(Slice(bits, 0, header_len_bits))
        msg_len         == FromBytesBig(Slice(header_bytes, Len(_HEADER), Len(_HEADER) + 4))
        msg_bits        == Slice(bits, header_len_bits, header_len_bits + (msg_len * 8))
    IN  IF ~StartsWith(header_bytes, SubSeq(_HEADER, 1, 4)) THEN <<>>
        ELSE DecodeBody(_from_bits(msg_bits))

\* the bytes before the first zero byte
RECURSIVE UntilNul(_)
UntilNul(bs) ==
    IF bs = <<>> \/ Head(bs) = 0 THEN <<>>
    ELSE << Head(bs) >> \o UntilNul(Tail(bs))

\* ParseBits as it would be taking the body up to the first zero byte
\* instead of the declared length
ParseBitsUntilNul(bits) ==
    LET header_len_bits == (Len(_HEADER) + 4) * 8
        header_bytes    == _from_bits(Slice(bits, 0, header_len_bits))
        rest            == _from_bits(Slice(bits, header_len_bits, Len(bits)))
    IN  IF ~StartsWith(header_bytes, _HEADER) THEN <<>>
        ELSE DecodeBody(UntilNul(rest))

\* the part of _fallback_decode after the reading loops
ParseBits(bits) ==
    LET header_len_bits == (Len(_HEADER) + 4) * 8
        header_bytes    == _from_bits(Slice(bits, 0, header_len_bits))
        msg_len         == FromBytesBig(Slice(header_bytes, Len(_HEADER), Len(_HEADER) + 4))
        msg_bits        == Slice(bits, header_len_bits, header_len_bits + (msg_len * 8))
    IN  IF ~StartsWith(header_bytes, _HEADER) THEN <<>>
        ELSE DecodeBody(_from_bits(msg_bits))

_fallback_decode(file) == ParseBits(ReadLoop(ConvertRGBA(file)))

\* encode_message_to_image as it would be without the check of the message
encode_any_message(fsys, cover_image, message, output_path) ==
    IF fsys[cover_image] = NoFile
    THEN [err |-> CoverNotFound, fs |-> fsys, img |-> NoFile, path |-> output_path]
    ELSE LET out == ensure_png(output_path)
             r   == _fallback_encode(fsys[cover_image], message)
         IN  [err  |-> r.err,
              fs   |-> IF r.saved THEN [fsys EXCEPT ![out] = r.img] ELSE fsys,
              img  |-> r.img,
              path |-> out]

\* encode_message_to_image with lsb = None: [err, fs, img, path]
encode_message_to_image(fsys, cover_image, message, output_path) ==
    IF fsys[cover_image] = NoFile
    THEN [err |-> CoverNotFound, fs |-> fsys, img |-> NoFile, path |-> output_path]
    ELSE IF message = <<>>
    THEN [err |-> InvalidInput, fs |-> fsys, img |-> NoFile, path |-> output_path]
    ELSE LET out == ensure_png(output_path)
             r   == _fallback_encode(fsys[cover_image], message)
         IN  [err  |-> r.err,
              fs   |-> IF r.saved THEN [fsys EXCEPT ![out] = r.img] ELSE fsys,
              img  |-> r.img,
              path |-> out]

\* decode_message_from_image with lsb = None: [err, text]
decode_message_from_image(fsys, stego_image) ==
    IF fsys[stego_image] = NoFile
    THEN [err |-> ImageNotFound, text |-> <<>>]
    ELSE LET msg == _fallback_decode(fsys[stego_image])
         IN  IF msg = <<>>
             THEN [err |-> NoMessageFound, text |-> <<>>]
             ELSE [err |-> "none", text |-> msg]

\* ------------------------------------------------------------ inputs

\* an image of one colour, as tests/test_core.py makes its covers
Uniform(mode, w, h, colour) ==
    [mode |-> mode, width |-> w, height |-> h,
     px |-> [xy \in Coords(w, h) |-> colour]]

\* An RGBA image whose low-order RGB bits, pixel by pixel in rows, spell
\* `bits` and then go on irregularly; the upper bits and alpha vary with
\* the place.
Carrier(w, h, bits) ==
    LET low(k) == IF k < Len(bits) THEN bits[k + 1] ELSE ((k * k) \div 7) % 2
        ch(x, y, c) == (2 * (((17 * x) + (31 * y) + (7 * c)) % 128))
                       + low((3 * ((y * w) + x)) + c)
    IN  [mode |-> "RGBA", width |-> w, height |-> h,
         px |-> [xy \in Coords(w, h) |->
                   << ch(xy[1], xy[2], 0), ch(xy[1], xy[2], 1), ch(xy[1], xy[2], 2),
                      ((xy[1] * 50) + (xy[2] * 3)) % 256 >>]]

\* the bits of a frame with the given magic, length field and body bytes
RawFrame(magic, len4, body) == _to_bits(magic \o len4 \o body)

\* the covers a user may open
PlainCovers ==
    { Uniform("RGBA", 9, 3, << 20, 40, 60, 255 >>),
      Uniform("RGBA", 8, 4, << 0, 0, 0, 255 >>),
      Uniform("RGB", 8, 8, << 255, 254, 1 >>),
      Uniform("RGBA", 2, 2, << 1, 1, 1, 0 >>),
      Uniform("RGBA", 5, 3, << 7, 8, 9, 10 >>),
      Carrier(9, 4, <<>>) }

\* images whose low-order bits start with the magic, written by another hand
MarkedCovers ==
    { \* a whole frame holding "A", then other bits
      Carrier(9, 4, RawFrame(_HEADER, ToBytes4(1), << 65 >>)),
      \* 45 bits: the magic and a cut length field
      Carrier(5, 3, RawFrame(_HEADER, <<>>, <<>>)),
      \* declared 2 bytes, one whole byte and one bit present
      Carrier(9, 3, RawFrame(_HEADER, ToBytes4(2), << 65 >>)),
      \* declared 2^24 bytes, two present
      Carrier(8, 4, RawFrame(_HEADER, << 1, 0, 0, 0 >>, << 104, 105 >>)),
      \* declared 1 byte, none present
      Carrier(8, 3, RawFrame(_HEADER, ToBytes4(1), <<>>)),
      \* declared 3 bytes of a 3-byte character, one present
      Carrier(9, 3, RawFrame(_HEADER, ToBytes4(3), << 226 >>)),
      \* declared length 0
      Carrier(8, 4, RawFrame(_HEADER, ToBytes4(0), <<>>)),
      \* bodies that are no UTF-8
      Carrier(9, 3, RawFrame(_HEADER, ToBytes4(1), << 255 >>)),
      Carrier(8, 4, RawFrame(_HEADER, ToBytes4(3), << 226, 130, 40 >>)),
      Carrier(8, 4, RawFrame(_HEADER, ToBytes4(3), << 237, 160, 128 >>)),
      Carrier(10, 3, RawFrame(_HEADER, ToBytes4(2), << 192, 128 >>)),
      Carrier(9, 3, RawFrame(_HEADER, ToBytes4(1), << 128 >>)) }

\* the magic with its last bit wrong, then a frame's rest
NearCovers ==
    { Carrier(9, 3, RawFrame(<< 73, 77, 83, 71, 1 >>, ToBytes4(1), << 65 >>)),
      Carrier(9, 3, RawFrame(<< 201, 77, 83, 71, 0 >>, ToBytes4(1), << 65 >>)) }

Covers == PlainCovers \cup MarkedCovers \cup NearCovers

\* "A", e-acute, the euro sign, the fox face; 15 and 16 bytes; a lone surrogate
Messages ==
    { <<>>,
      << 65 >>,
      << 233 >>,
      << 8364 >>,
      << 129418 >>,
      << 8364, 8364, 8364, 8364, 8364 >>,
      << 129418, 129418, 129418, 129418 >>,
      << 55296 >> }

CoverPath == Path("cover", ".png")
StegoPath == Path("stego", ".png")

\* the paths that can name a file
FilePaths == { CoverPath, StegoPath }

\* the output paths a caller gives
OutputPaths == { StegoPath, Path("stego", ".jpg") }

NoOp == [kind |-> "none", src |-> CoverPath, dst |-> CoverPath, msg |-> <<>>]
NoRes == [err |-> "none", text |-> <<>>, path |-> CoverPath]

\* ------------------------------------------------------------ the machine

InitWith(covers) ==
    /\ \E c \in covers :
          fs = [p \in FilePaths |-> IF p = CoverPath THEN c ELSE NoFile]
    /\ op = NoOp
    /\ res = NoRes
    /\ pre = fs
    /\ img = NoFile
    /\ log = <<>>

Init == InitWith(Covers)

\* a call of encode_message_to_image(src, msg, dst), while fewer than
\* `limit` embeds have succeeded
Encode(limit, src, msg, dst) ==
    /\ Len(log) < limit
    /\ LET r == encode_message_to_image(fs, src, msg, dst)
       IN  /\ fs' = r.fs
           /\ res' = [err |-> r.err, text |-> <<>>, path |-> r.path]
           /\ img' = r.img
           /\ log' = IF r.err = "none"
                     THEN Append(log, [src |-> src, dst |-> r.path, msg |-> msg])
                     ELSE log
    /\ op' = [kind |-> "encode", src |-> src, dst |-> dst, msg |-> msg]
    /\ pre' = fs

\* a call of decode_message_from_image(src)
Decode(src) ==
    /\ LET r == decode_message_from_image(fs, src)
       IN  res' = [err |-> r.err, text |-> r.text, path |-> src]
    /\ op' = [kind |-> "decode", src |-> src, dst |-> src, msg |-> <<>>]
    /\ pre' = fs
    /\ img' = NoFile
    /\ UNCHANGED << fs, log >>

Next ==
    \/ \E src \in FilePaths, msg \in Messages, dst \in OutputPaths :
          Encode(MaxSaves, src, msg, dst)
    \/ \E src \in FilePaths : Decode(src)

Spec == Init /\ [][Next]_vars

\* Embeds one after another into the same file: covers that hold several
\* messages, messages of 1 to 4 bytes, one output path.
ChainCovers ==
    { Uniform("RGBA", 8, 4, << 0, 0, 0, 255 >>),
      Carrier(9, 4, <<>>),
      Carrier(9, 4, RawFrame(_HEADER, ToBytes4(1), << 65 >>)),
      Carrier(8, 4, RawFrame(_HEADER, << 1, 0, 0, 0 >>, << 104, 105 >>)) }

ChainMessages == { << 65 >>, << 233 >>, << 8364 >>, << 129418 >> }

InitChain == InitWith(ChainCovers)

NextChain ==
    \/ \E src \in FilePaths, msg \in ChainMessages :
          Encode(MaxChain, src, msg, StegoPath)
    \/ \E src \in FilePaths : Decode(src)

SpecChain == InitChain /\ [][NextChain]_vars

\* ------------------------------------------------------------ vocabulary of the claims

\* capacity in bits of an image: 3 channels of every pixel
Capacity(file) == file.width * file.height * 3

\* the value of RGB channel k of an image, counting the channels pixel by
\* pixel along the rows: pixel k div 3 is at x = (k div 3) mod w, y = (k div 3) div w
ChannelAt(file, k) ==
    file.px[<< (k \div 3) % file.width, (k \div 3) \div file.width >>][(k % 3) + 1]

LowBit(file, k) == ChannelAt(file, k) % 2

\* bit k of a byte string, most significant bit of byte 0 first
BitOf(bs, k) == (bs[(k \div 8) + 1] \div (2 ^ (7 - (k % 8)))) % 2

\* the number spelt by `count` low-order bits of the image from channel `from` on
RECURSIVE LowBitsValue(_, _, _)
LowBitsValue(file, from, count) ==
    IF count = 0 THEN 0
    ELSE (2 * LowBitsValue(file, from, count - 1)) + LowBit(file, from + count - 1)

\* the first 40 low-order bits spell the magic
HasMarker(file) ==
    /\ Capacity(file) >= 40
    /\ \A k \in 0..39 : LowBit(file, k) = BitOf(_HEADER, k)

\* length in bytes of the frame of a text
FrameBytes(text) == 5 + 4 + Len(Utf8Encode(text))

\* the last call was an embed that read an existing cover
Embedded == op.kind = "encode" /\ pre[op.src] # NoFile

EmbeddedOk == Embedded /\ res.err = "none"

\* the cover of the last embed as _fallback_encode sees it, and its output
OldCanvas == ConvertRGBA(pre[op.src])
NewCanvas == fs[res.path]

\* the last call was an extract from an existing image
Extracted == op.kind = "decode" /\ pre[op.src] # NoFile

\* ------------------------------------------------------------ C1

\* C1 (round trip): after an embed of a non-empty message whose frame has at
\* most w*h*3 bits into an existing cover, the embed has succeeded and an
\* extract from the file it wrote returns exactly that message.
C1_RoundTrip ==
    ( /\ Embedded
      /\ op.msg # <<>>
      /\ CanEncode(op.msg)
      /\ 8 * FrameBytes(op.msg) <= Capacity(pre[op.src]) )
    => /\ res.err = "none"
       /\ decode_message_from_image(fs, res.path) = [err |-> "none", text |-> op.msg]

\* a four-byte character embedded and read back
C1_Witness ==
    /\ EmbeddedOk
    /\ op.msg = << 129418 >>
    /\ decode_message_from_image(fs, res.path).text = << 129418 >>

\* ------------------------------------------------------------ C2

\* C2 (capacity boundary): an embed of a non-empty message with a frame of F
\* bytes into a w x h cover succeeds when 8F <= 3wh and fails with
\* CapacityExceeded when 8F > 3wh; on an 8 x 8 cover every frame of more than
\* 24 bytes is rejected.
C2_CapacityBoundary ==
    ( Embedded /\ op.msg # <<>> /\ CanEncode(op.msg) )
    => LET F == FrameBytes(op.msg)
           c == pre[op.src]
       IN  /\ (8 * F <= c.width * c.height * 3) => res.err = "none"
           /\ (8 * F > c.width * c.height * 3) => res.err = CapacityExceeded
           /\ (c.width = 8 /\ c.height = 8 /\ F > 24) => res.err = CapacityExceeded

\* a frame that fills the cover to the last bit
C2_Witness ==
    /\ EmbeddedOk
    /\ 8 * FrameBytes(op.msg) = Capacity(pre[op.src])
    /\ pre[op.src].width = 8 /\ pre[op.src].height = 8

\* ------------------------------------------------------------ C3

\* C3 (all or nothing): an embed that fails with CapacityExceeded or
\* InvalidInput has written no pixel, in memory or on disk, and produced no
\* output file; and an embed never leaves a file holding only part of a frame:
\* either no file changed, or the output's low-order bits start with the whole
\* frame.
C3_AllOrNothing ==
    /\ ( Embedded /\ res.err \in { CapacityExceeded, InvalidInput } )
       => /\ fs = pre
          /\ img \in { NoFile, OldCanvas }
    /\ Embedded
       => \/ fs = pre /\ res.err # "none"
          \/ LET bits == _to_bits(Payload(op.msg))
             IN  /\ res.err = "none"
                 /\ Len(bits) <= Capacity(NewCanvas)
                 /\ \A k \in 0..(Len(bits) - 1) : LowBit(NewCanvas, k) = bits[k + 1]

\* a message too large for a cover that could take its header, no file written
C3_Witness ==
    /\ Embedded
    /\ res.err = CapacityExceeded
    /\ Capacity(pre[op.src]) >= 72
    /\ fs[ensure_png(op.dst)] = NoFile
    /\ img = OldCanvas

\* ------------------------------------------------------------ C4

\* C4 (no message): an extract from an image whose first 40 low-order RGB
\* bits do not spell the magic (an image of one colour, an image of fewer than
\* 72 bits among them) fails with NoMessageFound and gives no text.
C4_NoMessage ==
    ( Extracted /\ ~HasMarker(pre[op.src]) )
    => res.err = NoMessageFound /\ res.text = <<>>

\* an image that differs from a frame in the last bit of the magic only
C4_Witness ==
    /\ Extracted
    /\ Capacity(pre[op.src]) >= 80
    /\ \A k \in 0..38 : LowBit(pre[op.src], k) = BitOf(_HEADER, k)
    /\ LowBit(pre[op.src], 39) # BitOf(_HEADER, 39)
    /\ res.err = NoMessageFound

\* ------------------------------------------------------------ C5

\* the length field as the low-order bits 40..71 spell it
DeclaredLength(file) == LowBitsValue(file, 40, 32)

\* C5 (truncated carrier): an extract from an image that starts with the
\* magic and a length L, and holds fewer than L whole bytes after the 9
\* header bytes, fails with NoMessageFound; it never returns a shorter body.
C5_Truncated ==
    ( /\ Extracted
      /\ HasMarker(pre[op.src])
      /\ Capacity(pre[op.src]) >= 72
      /\ 8 * DeclaredLength(pre[op.src]) > Capacity(pre[op.src]) - 72 )
    => res.err = NoMessageFound /\ res.text = <<>>

\* ------------------------------------------------------------ C6

\* C6 (empty message): an embed of the empty message into an existing cover
\* fails with InvalidInput whatever the cover's size, also when the cover
\* cannot hold the 9 header bytes, and writes nothing.
C6_EmptyRejected ==
    ( Embedded /\ op.msg = <<>> )
    => res.err = InvalidInput /\ fs = pre

\* the empty message and a cover of fewer than 72 bits
C6_Witness ==
    /\ Embedded
    /\ op.msg = <<>>
    /\ Capacity(pre[op.src]) < 72
    /\ res.err = InvalidInput

\* ------------------------------------------------------------ C7

\* C7 (what a write changes): after an embed of n bits that succeeded, every
\* channel keeps its upper 7 bits, every alpha value is as it was, and every
\* RGB channel k >= n is as it was, the image keeping its size.
C7_WriteFrame ==
    EmbeddedOk
    => LET n == 8 * FrameBytes(op.msg)
       IN  /\ NewCanvas.width = OldCanvas.width
           /\ NewCanvas.height = OldCanvas.height
           /\ DOMAIN NewCanvas.px = DOMAIN OldCanvas.px
           /\ \A xy \in DOMAIN OldCanvas.px :
                 /\ Len(NewCanvas.px[xy]) = 4
                 /\ \A c \in 1..3 :
                       NewCanvas.px[xy][c] \div 2 = OldCanvas.px[xy][c] \div 2
                 /\ NewCanvas.px[xy][4] = OldCanvas.px[xy][4]
           /\ \A k \in n..(Capacity(OldCanvas) - 1) :
                 ChannelAt(NewCanvas, k) = ChannelAt(OldCanvas, k)

\* a stream that ends inside a pixel, with set bits and varied alpha after it
C7_Witness ==
    /\ EmbeddedOk
    /\ (8 * FrameBytes(op.msg)) % 3 # 0
    /\ NewCanvas # OldCanvas
    /\ ChannelAt(OldCanvas, 8 * FrameBytes(op.msg)) % 2 = 1
    /\ \E xy \in DOMAIN OldCanvas.px : OldCanvas.px[xy][4] # 255

\* ------------------------------------------------------------ C8

\* C8 (write then read): after an embed of the stream `bits` of n bits that
\* succeeded, reading the output yields exactly w*h*3 bits; bit k read is the
\* low-order bit of channel k mod 3 of the pixel at x = (k div 3) mod w,
\* y = (k div 3) div w; it is bits[k] for k < n and the cover's low-order bit
\* for k >= n.
C8_WriteThenRead ==
    EmbeddedOk
    => LET bits == _to_bits(Payload(op.msg))
           n    == Len(bits)
           rd   == ReadLoop(NewCanvas)
       IN  /\ Len(rd) = NewCanvas.width * NewCanvas.height * 3
           /\ \A k \in 0..(Len(rd) - 1) :
                 /\ rd[k + 1] = LowBit(NewCanvas, k)
                 /\ (k < n) => rd[k + 1] = bits[k + 1]
                 /\ (k >= n) => rd[k + 1] = LowBit(OldCanvas, k)

\* a cover that is not square, with bits of both values after the stream
C8_Witness ==
    /\ EmbeddedOk
    /\ NewCanvas.width # NewCanvas.height
    /\ LET n == 8 * FrameBytes(op.msg)
       IN  /\ \E k \in n..(Capacity(NewCanvas) - 1) : LowBit(NewCanvas, k) = 1
           /\ \E k \in n..(Capacity(NewCanvas) - 1) : LowBit(NewCanvas, k) = 0
    /\ ReadLoop(NewCanvas) # ReadLoop(OldCanvas)

\* ------------------------------------------------------------ C9

\* the code point a chunk of 1 to 4 bytes would spell
ChunkValue(ch) ==
    CASE Len(ch) = 1 -> ch[1]
      [] Len(ch) = 2 -> ((ch[1] - 192) * 64) + (ch[2] - 128)
      [] Len(ch) = 3 -> ((ch[1] - 224) * 4096) + ((ch[2] - 128) * 64) + (ch[3] - 128)
      [] OTHER -> ((ch[1] - 240) * 262144) + ((ch[2] - 128) * 4096)
                  + ((ch[3] - 128) * 64) + (ch[4] - 128)

\* a byte string is UTF-8 when it splits into chunks each of which is the
\* encoding of a Unicode scalar value
RECURSIVE WellFormedUtf8(_)
WellFormedUtf8(bs) ==
    \/ bs = <<>>
    \/ \E k \in 1..4 :
          /\ k <= Len(bs)
          /\ LET cp == ChunkValue(SubSeq(bs, 1, k))
             IN  /\ cp >= 0 /\ cp <= 1114111
                 /\ ~IsSurrogate(cp)
                 /\ Utf8EncodeCp(cp) = SubSeq(bs, 1, k)
          /\ WellFormedUtf8(SubSeq(bs, k + 1, Len(bs)))

\* the L bytes the low-order bits spell after the 72 header bits
BodyBytes(file, L) == [j \in 1..L |-> LowBitsValue(file, 72 + (8 * (j - 1)), 8)]

\* the image holds the magic, a length L >= 1 and L whole body bytes
HoldsWholeFrame(file) ==
    /\ HasMarker(file)
    /\ Capacity(file) >= 72
    /\ DeclaredLength(file) >= 1
    /\ 72 + (8 * DeclaredLength(file)) <= Capacity(file)

\* C9 (body that is no UTF-8): an extract from an image that holds the magic,
\* a length L and L body bytes that are not UTF-8 reports NoMessageFound, as
\* for an image without the magic, and gives no text.
C9_NotUtf8 ==
    ( /\ Extracted
      /\ HoldsWholeFrame(pre[op.src])
      /\ ~WellFormedUtf8(BodyBytes(pre[op.src], DeclaredLength(pre[op.src]))) )
    => res.err = NoMessageFound /\ res.text = <<>>

\* a body of three bytes that starts like a three-byte character
C9_Witness ==
    /\ Extracted
    /\ HoldsWholeFrame(pre[op.src])
    /\ DeclaredLength(pre[op.src]) = 3
    /\ ~WellFormedUtf8(BodyBytes(pre[op.src], 3))
    /\ res.err = NoMessageFound

\* ------------------------------------------------------------ C10

\* C10 (the last embed wins): an extract from a file that embeds have
\* written, one after another, returns the message of the most recent of
\* them, whatever the lengths of the earlier messages.
C10_LastEmbedWins ==
    ( Extracted /\ log # <<>> /\ log[Len(log)].dst = op.src )
    => res.err = "none" /\ res.text = log[Len(log)].msg

\* 4 bytes, then 1 byte, then 2 bytes, each into the file the last one wrote
C10_Witness ==
    /\ Extracted
    /\ Len(log) = 3
    /\ op.src = log[3].dst
    /\ log[2].src = log[1].dst /\ log[3].src = log[2].dst
    /\ Len(Utf8Encode(log[1].msg)) = 4
    /\ Len(Utf8Encode(log[2].msg)) = 1
    /\ Len(Utf8Encode(log[3].msg)) = 2
    /\ res.text = log[3].msg

====
